---- MODULE Spec2Model ----
(***************************************************************************)
(* The compilation cache of src/codegen/compilation-cache.cc: the script   *)
(* region, the two eval regions and the generational RegExp region, the    *)
(* enable flag that gates script and eval, the hit/miss counters, and the  *)
(* collector-driven ageing (MarkCompactPrologue).                          *)
(*                                                                         *)
(* CompilationCacheTable (src/objects/compilation-cache-table.cc) is not   *)
(* part of the two source files; its operations are modelled from the      *)
(* specification's CacheTable contract (the Table... operators).           *)
(***************************************************************************)
EXTENDS Integers, Sequences, FiniteSets, TLC

VARIABLES
  enabled_script_and_eval_,  \* CompilationCache::enabled_script_and_eval_
  script_table_,             \* script_.table_
  eval_global_table_,        \* eval_global_.table_
  eval_contextual_table_,    \* eval_contextual_.table_
  tables_,                   \* reg_exp_.tables_[kGenerations]
  hits,                      \* counters()->compilation_cache_hits()
  misses,                    \* counters()->compilation_cache_misses()
  bytecode,                  \* per SharedFunctionInfo: "none" | "young" | "old"
  FLAG_isolate_script_cache_ageing,  \* configuration flag, fixed at start-up
  result,                    \* what the last call returned
  last,                      \* the last call: its name and arguments
  pre,                       \* the cache as it was when the last call began
  visited,                   \* the slots the last call gave to its RootVisitor
  hist                       \* the calls so far, newest last (scenario specifications)

vars == <<enabled_script_and_eval_, script_table_, eval_global_table_,
          eval_contextual_table_, tables_, hits, misses, bytecode,
          FLAG_isolate_script_cache_ageing, result, last, pre, visited, hist>>

----------------------------------------------------------------------------
(* Bounds of the model.                                                    *)

\* Lookups are counted up to this many in total (hits + misses).
MaxCount == 2
\* The largest countdown a sentinel entry of an eval table is seeded with.
MaxCountdown == 2

(* Program constants.                                                      *)

\* CompilationCacheRegExp::kGenerations (static_assert(kGenerations > 1)).
kGenerations == 2
Generations == 0 .. (kGenerations - 1)

\* The number of most recent calls a scenario specification remembers: a
\* Put, a lookup, and kGenerations calls of Age.
HistLen == kGenerations + 2

----------------------------------------------------------------------------
(* Heap values.                                                            *)

Undefined == [tag |-> "undefined", val |-> ""]
Str(s)    == [tag |-> "string", val |-> s]
Num(n)    == [tag |-> "number", val |-> n]
NaN       == [tag |-> "number", val |-> "NaN"]
\* An empty MaybeHandle.
NoHandle  == [tag |-> "null", val |-> ""]

IsUndefinedValue(o) == o.tag = "undefined"
IsString(o)         == o.tag = "string"
\* String::Equals compares content.
StringEquals(a, b)  == a.val = b.val
\* Object::StrictEquals on primitives: equal type and value, NaN unequal to all.
StrictEquals(a, b)  == a = b /\ a # NaN

\* The SharedFunctionInfos of the model and the Script each belongs to.
SharedFunctionInfos == {"A", "B", "C"}

Script(name, line, column, flags, options) ==
  [name |-> name, line_offset |-> line, column_offset |-> column,
   origin_options |-> flags, host_defined_options |-> options]

\* function_info->script(): A and B are the same text loaded from two
\* places, C comes from a script without a name.
ScriptOf(f) ==
  CASE f = "A" -> Script(Str("x.js"), 0, 0, 0, << >>)
    [] f = "B" -> Script(Str("y.js"), 0, 0, 0, << >>)
    [] OTHER   -> Script(Undefined, 0, 0, 0, << >>)

\* function_info->language_mode().
LanguageModeOf(f) == IF f = "C" THEN "strict" ELSE "sloppy"

\* A MaybeHandle<FixedArray>: empty, or an array of primitives.
NoArray      == [has |-> FALSE, array |-> << >>]
SomeArray(a) == [has |-> TRUE, array |-> a]

ScriptDetails(name_obj, line, column, flags, options) ==
  [name_obj |-> name_obj, line_offset |-> line, column_offset |-> column,
   origin_options |-> flags, host_defined_options |-> options]

\* The request a loader builds for the place f's script came from.
DetailsOf(f) ==
  LET s == ScriptOf(f)
  IN  ScriptDetails(IF IsUndefinedValue(s.name) THEN NoHandle ELSE s.name,
                    s.line_offset, s.column_offset, s.origin_options,
                    SomeArray(s.host_defined_options))

----------------------------------------------------------------------------
(* CompilationCacheTable, from the specification's CacheTable contract: a  *)
(* table is a set of entries, at most one per key; Put replaces the entry  *)
(* of an equal key and returns the table to adopt.                         *)

\* A slot holding undefined_value(), and CompilationCacheTable::New.
UndefinedTable == [undef |-> TRUE, entries |-> {}]
NewTable       == [undef |-> FALSE, entries |-> {}]

IsUndefined(slot) == slot.undef

Entry(key, value) == [key |-> key, value |-> value]

HasKey(table, key)  == \E e \in table.entries : e.key = key
ValueAt(table, key) == (CHOOSE e \in table.entries : e.key = key).value

TableFind(table, key) ==
  IF HasKey(table, key) THEN [found |-> TRUE, value |-> ValueAt(table, key)]
                        ELSE [found |-> FALSE, value |-> "none"]

TableInsert(table, key, value) ==
  [undef |-> FALSE,
   entries |-> {e \in table.entries : e.key # key} \cup {Entry(key, value)}]

\* Keys: the script key is (source, language mode); the eval key is
\* (source, outer function, native context, language mode, position); the
\* RegExp key is (pattern, flags); a sentinel's key is a hash as a Number.
ScriptKey(source, language_mode) == <<"script", source, language_mode>>
EvalKey(source, outer_info, native_context, language_mode, position) ==
  <<"eval", source, outer_info, native_context, language_mode, position>>
RegExpKey(source, flags) == <<"regexp", source, flags>>
NumberKey(hash) == <<"number", hash>>

KeyIsNumber(key) == key[1] = "number"

TableLookupScript(table, source, language_mode) ==
  TableFind(table, ScriptKey(source, language_mode))

TablePutScript(table, source, language_mode, function_info) ==
  TableInsert(table, ScriptKey(source, language_mode), function_info)

\* An InfoCellPair: has_shared(), shared(), feedback_cell().
EmptyInfoCellPair == [found |-> FALSE, value |-> "none", cell |-> "none"]

TableLookupEval(table, source, outer_info, native_context, language_mode, position) ==
  LET key == EvalKey(source, outer_info, native_context, language_mode, position)
  IN  IF HasKey(table, key)
        THEN [found |-> TRUE, value |-> ValueAt(table, key).shared,
              cell |-> ValueAt(table, key).cell]
        ELSE EmptyInfoCellPair

TablePutEval(table, source, outer_info, function_info, native_context, feedback_cell, position) ==
  TableInsert(table,
              EvalKey(source, outer_info, native_context,
                      LanguageModeOf(function_info), position),
              [shared |-> function_info, cell |-> feedback_cell])

TableLookupRegExp(table, source, flags) ==
  TableFind(table, RegExpKey(source, flags))

TablePutRegExp(table, source, flags, data) ==
  TableInsert(table, RegExpKey(source, flags), data)

\* PrimaryValueAt: the artifact of a structural entry, the Smi of a sentinel.
PrimaryValueAt(e) ==
  IF KeyIsNumber(e.key) \/ e.key[1] # "eval" THEN e.value ELSE e.value.shared

\* CompilationCacheTable::Remove(value): every entry holding that artifact.
TableRemove(table, function_info) ==
  [table EXCEPT !.entries =
     {e \in @ : KeyIsNumber(e.key) \/ PrimaryValueAt(e) # function_info}]

----------------------------------------------------------------------------
(* HasOrigin.                                                              *)

\* Mutant: a HasOrigin that compares the lengths of the host-defined options
\* and not their elements.
ScriptHasOriginByLength(script, script_details) ==
  IF script_details.name_obj = NoHandle
    THEN IsUndefinedValue(script.name)
  ELSE IF script_details.line_offset # script.line_offset THEN FALSE
  ELSE IF script_details.column_offset # script.column_offset THEN FALSE
  ELSE IF ~IsString(script_details.name_obj) \/ ~IsString(script.name) THEN FALSE
  ELSE IF script_details.origin_options # script.origin_options THEN FALSE
  ELSE IF ~StringEquals(script_details.name_obj, script.name) THEN FALSE
  ELSE LET host_defined_options ==
             IF script_details.host_defined_options.has
               THEN script_details.host_defined_options.array
               ELSE << >>
       IN  Len(host_defined_options) = Len(script.host_defined_options)

\* Mutant: a HasOrigin that does the fast bailout checks before it looks
\* whether the request has a name.
ScriptHasOriginBailoutFirst(script, script_details) ==
  IF script_details.line_offset # script.line_offset THEN FALSE
  ELSE IF script_details.column_offset # script.column_offset THEN FALSE
  ELSE IF script_details.name_obj = NoHandle
    THEN IsUndefinedValue(script.name)
  ELSE IF ~IsString(script_details.name_obj) \/ ~IsString(script.name) THEN FALSE
  ELSE IF script_details.origin_options # script.origin_options THEN FALSE
  ELSE IF ~StringEquals(script_details.name_obj, script.name) THEN FALSE
  ELSE LET host_defined_options ==
             IF script_details.host_defined_options.has
               THEN script_details.host_defined_options.array
               ELSE << >>
           script_options == script.host_defined_options
           length == Len(host_defined_options)
       IN  IF length # Len(script_options) THEN FALSE
           ELSE \A i \in 1 .. length :
                  StrictEquals(host_defined_options[i], script_options[i])

ScriptHasOrigin(script, script_details) ==
  IF script_details.name_obj = NoHandle
    THEN IsUndefinedValue(script.name)
  ELSE IF script_details.line_offset # script.line_offset THEN FALSE
  ELSE IF script_details.column_offset # script.column_offset THEN FALSE
  ELSE IF ~IsString(script_details.name_obj) \/ ~IsString(script.name) THEN FALSE
  ELSE IF script_details.origin_options # script.origin_options THEN FALSE
  ELSE IF ~StringEquals(script_details.name_obj, script.name) THEN FALSE
  ELSE LET host_defined_options ==
             IF script_details.host_defined_options.has
               THEN script_details.host_defined_options.array
               ELSE << >>
           script_options == script.host_defined_options
           length == Len(host_defined_options)
       IN  IF length # Len(script_options) THEN FALSE
           ELSE \A i \in 1 .. length :
                  StrictEquals(host_defined_options[i], script_options[i])

HasOrigin(function_info, script_details) ==
  ScriptHasOrigin(ScriptOf(function_info), script_details)

----------------------------------------------------------------------------
(* The regions.  Each operator takes the region's fields and returns what  *)
(* the method leaves in them (and what it returns).                        *)

\* CompilationCacheEvalOrScript::GetTable: a new table is returned, not stored.
EvalOrScript_GetTable(table_) ==
  IF IsUndefined(table_) THEN NewTable ELSE table_

\* CompilationCacheRegExp::GetTable: a new table is stored in the slot; the
\* value is tables_ afterwards, the table returned is its [generation].
RegExp_GetTable(tabs, generation) ==
  IF IsUndefined(tabs[generation])
    THEN [tabs EXCEPT ![generation] = NewTable]
    ELSE tabs

\* The loop of CompilationCacheRegExp::Age, i from kGenerations - 1 down to 1.
RECURSIVE RegExp_AgeLoop(_, _)
RegExp_AgeLoop(tabs, i) ==
  IF i > 0 THEN RegExp_AgeLoop([tabs EXCEPT ![i] = tabs[i - 1]], i - 1)
           ELSE tabs

\* Mutant: an Age that shifts the generations and keeps the newest in place.
RegExp_AgeKeepingNewest(tabs) ==
  RegExp_AgeLoop(tabs, kGenerations - 1)

RegExp_Age(tabs) ==
  [RegExp_AgeLoop(tabs, kGenerations - 1) EXCEPT ![0] = UndefinedTable]

HasBytecodeArray(bc, info) == bc[info] # "none"
BytecodeIsOld(bc, info)    == bc[info] = "old"

\* The value of an entry whose artifact is gone: undefined_value().
UndefinedInfo == "undefined"
IsUndefinedInfo(value) == value = UndefinedInfo

\* Mutant: a script ageing that does not look at the configuration.
Script_AgeUnconfigured(table_, bc, ageing) ==
  IF IsUndefined(table_) THEN table_
  ELSE [table_ EXCEPT !.entries =
          {e \in @ : ~(/\ ~IsUndefinedInfo(PrimaryValueAt(e))
                       /\ HasBytecodeArray(bc, PrimaryValueAt(e))
                       /\ BytecodeIsOld(bc, PrimaryValueAt(e)))}]

Script_Age(table_, bc, ageing) ==
  IF ~ageing THEN table_
  ELSE IF IsUndefined(table_) THEN table_
  ELSE [table_ EXCEPT !.entries =
          {e \in @ : ~(/\ ~IsUndefinedInfo(PrimaryValueAt(e))
                       /\ HasBytecodeArray(bc, PrimaryValueAt(e))
                       /\ BytecodeIsOld(bc, PrimaryValueAt(e)))}]

\* Mutant: an ageing that never writes the lowered count back.
Eval_AgeEntryNoWriteBack(e, bc) ==
  IF KeyIsNumber(e.key)
    THEN LET new_count == PrimaryValueAt(e) - 1
         IN  IF new_count = 0 THEN {} ELSE {e}
    ELSE IF HasBytecodeArray(bc, PrimaryValueAt(e))
            /\ BytecodeIsOld(bc, PrimaryValueAt(e))
           THEN {} ELSE {e}

\* What CompilationCacheEval::Age leaves of one entry: the empty set when it
\* is removed, else the entry (a sentinel with its count lowered).
Eval_AgeEntry(e, bc) ==
  IF KeyIsNumber(e.key)
    THEN LET new_count == PrimaryValueAt(e) - 1
         IN  IF new_count = 0 THEN {} ELSE {Entry(e.key, new_count)}
    ELSE IF HasBytecodeArray(bc, PrimaryValueAt(e))
            /\ BytecodeIsOld(bc, PrimaryValueAt(e))
           THEN {} ELSE {e}

\* Mutant: an eval ageing that is switched off with the script ageing.
Eval_AgeWhenConfigured(table_, bc) ==
  IF ~FLAG_isolate_script_cache_ageing THEN table_
  ELSE IF IsUndefined(table_) THEN table_
  ELSE [table_ EXCEPT !.entries = UNION {Eval_AgeEntry(e, bc) : e \in @}]

Eval_Age(table_, bc) ==
  IF IsUndefined(table_) THEN table_
  ELSE [table_ EXCEPT !.entries = UNION {Eval_AgeEntry(e, bc) : e \in @}]

\* The slots a RootVisitor is given, by name: the table_ of a region, or
\* one of the tables_ of the RegExp region.
TableSlot(region)        == <<region, "table_">>
TablesSlot(generation)   == <<"reg_exp_", "tables_", generation>>

\* RootVisitor::VisitRootPointer(slot), and VisitRootPointers(start, end) on
\* the slots of tables_ from index start up to and not including index end.
VisitRootPointer(v, slot) == Append(v, slot)
VisitRootPointers(v, start, end) ==
  v \o [i \in 1 .. (end - start) |-> TablesSlot(start + i - 1)]

\* CompilationCacheEvalOrScript::Iterate: what the visitor has seen afterwards.
EvalOrScript_Iterate(v, region) == VisitRootPointer(v, TableSlot(region))

\* Mutant: an Iterate that shows the visitor the newest generation only.
RegExp_IterateNewestOnly(v) == VisitRootPointers(v, 0, 1)

RegExp_Iterate(v) == VisitRootPointers(v, 0, kGenerations)

EvalOrScript_Clear(table_) == UndefinedTable

RegExp_Clear(tabs) == [g \in Generations |-> UndefinedTable]

EvalOrScript_Remove(table_, function_info) ==
  IF IsUndefined(table_) THEN table_ ELSE TableRemove(table_, function_info)

\* Mutant: a Lookup that takes the structural hit without the origin check.
Script_LookupAnyOrigin(table_, source, script_details, language_mode) ==
  LET table == EvalOrScript_GetTable(table_)
      probe == TableLookupScript(table, source, language_mode)
  IN  IF probe.found
        THEN [found |-> TRUE, value |-> probe.value, cell |-> "none",
              hits |-> 1, misses |-> 0]
        ELSE [found |-> FALSE, value |-> "none", cell |-> "none",
              hits |-> 0, misses |-> 1]

\* CompilationCacheScript::Lookup: the result and which counter it bumps.
Script_Lookup(table_, source, script_details, language_mode) ==
  LET table == EvalOrScript_GetTable(table_)
      probe == TableLookupScript(table, source, language_mode)
  IN  IF probe.found /\ HasOrigin(probe.value, script_details)
        THEN [found |-> TRUE, value |-> probe.value, cell |-> "none",
              hits |-> 1, misses |-> 0]
        ELSE [found |-> FALSE, value |-> "none", cell |-> "none",
              hits |-> 0, misses |-> 1]

\* Mutant: a Put that inserts into a new table instead of the region's.
Script_PutIntoNewTable(table_, source, language_mode, function_info) ==
  TablePutScript(NewTable, source, language_mode, function_info)

\* Mutant: a Put that leaves the entry of a key that is already stored.
Script_PutKeepingFirst(table_, source, language_mode, function_info) ==
  LET table == EvalOrScript_GetTable(table_)
  IN  IF HasKey(table, ScriptKey(source, language_mode))
        THEN table
        ELSE TablePutScript(table, source, language_mode, function_info)

Script_Put(table_, source, language_mode, function_info) ==
  LET table == EvalOrScript_GetTable(table_)
  IN  TablePutScript(table, source, language_mode, function_info)

\* Mutant: a Lookup that counts its hits and leaves its misses uncounted.
Eval_LookupUncountedMiss(table_, source, outer_info, native_context, language_mode, position) ==
  LET table == EvalOrScript_GetTable(table_)
      r     == TableLookupEval(table, source, outer_info, native_context,
                               language_mode, position)
  IN  [found |-> r.found, value |-> r.value, cell |-> r.cell,
       hits |-> IF r.found THEN 1 ELSE 0, misses |-> 0]

Eval_Lookup(table_, source, outer_info, native_context, language_mode, position) ==
  LET table == EvalOrScript_GetTable(table_)
      r     == TableLookupEval(table, source, outer_info, native_context,
                               language_mode, position)
  IN  [found |-> r.found, value |-> r.value, cell |-> r.cell,
       hits |-> IF r.found THEN 1 ELSE 0, misses |-> IF r.found THEN 0 ELSE 1]

Eval_Put(table_, source, outer_info, function_info, native_context, feedback_cell, position) ==
  LET table == EvalOrScript_GetTable(table_)
  IN  TablePutEval(table, source, outer_info, function_info, native_context,
                   feedback_cell, position)

RegExp_Put(tabs, source, flags, data) ==
  LET got == RegExp_GetTable(tabs, 0)
  IN  [got EXCEPT ![0] = TablePutRegExp(got[0], source, flags, data)]

\* The probing loop of CompilationCacheRegExp::Lookup from `generation` on:
\* tables_ afterwards, the last probe's result and the generation it stopped at.
RECURSIVE RegExp_Probe(_, _, _, _)
RegExp_Probe(tabs, source, flags, generation) ==
  IF generation >= kGenerations
    THEN [tables |-> tabs, found |-> FALSE, value |-> "none",
          generation |-> generation]
    ELSE LET got == RegExp_GetTable(tabs, generation)
             r   == TableLookupRegExp(got[generation], source, flags)
         IN  IF r.found
               THEN [tables |-> got, found |-> TRUE, value |-> r.value,
                     generation |-> generation]
               ELSE RegExp_Probe(got, source, flags, generation + 1)

\* Mutant: a Lookup that probes from the oldest generation to the newest.
RegExp_LookupOldestFirst(tabs, source, flags) ==
  LET got     == [g \in Generations |->
                    IF IsUndefined(tabs[g]) THEN NewTable ELSE tabs[g]]
      holding == {g \in Generations : HasKey(got[g], RegExpKey(source, flags))}
      oldest  == CHOOSE g \in holding : \A h \in holding : h <= g
  IN  IF holding # {}
        THEN [tables |-> IF oldest # 0
                           THEN RegExp_Put(got, source, flags,
                                           ValueAt(got[oldest],
                                                   RegExpKey(source, flags)))
                           ELSE got,
              found |-> TRUE,
              value |-> ValueAt(got[oldest], RegExpKey(source, flags)),
              hits |-> 1, misses |-> 0]
        ELSE [tables |-> got, found |-> FALSE, value |-> "none",
              hits |-> 0, misses |-> 1]

\* Mutant: a Lookup that returns the hit of an older generation unpromoted.
RegExp_LookupUnpromoted(tabs, source, flags) ==
  LET probe == RegExp_Probe(tabs, source, flags, 0)
  IN  IF probe.found
        THEN [tables |-> probe.tables,
              found |-> TRUE, value |-> probe.value, hits |-> 1, misses |-> 0]
        ELSE [tables |-> probe.tables, found |-> FALSE, value |-> "none",
              hits |-> 0, misses |-> 1]

\* Mutant: a Lookup whose promotion moves the entry out of its generation.
RegExp_LookupMoving(tabs, source, flags) ==
  LET probe == RegExp_Probe(tabs, source, flags, 0)
      g     == probe.generation
  IN  IF probe.found
        THEN [tables |-> IF g # 0
                           THEN RegExp_Put(
                                  [probe.tables EXCEPT ![g].entries =
                                     {e \in @ : e.key # RegExpKey(source, flags)}],
                                  source, flags, probe.value)
                           ELSE probe.tables,
              found |-> TRUE, value |-> probe.value, hits |-> 1, misses |-> 0]
        ELSE [tables |-> probe.tables, found |-> FALSE, value |-> "none",
              hits |-> 0, misses |-> 1]

\* CompilationCacheRegExp::Lookup: tables_ afterwards and the result.
RegExp_Lookup(tabs, source, flags) ==
  LET probe == RegExp_Probe(tabs, source, flags, 0)
  IN  IF probe.found
        THEN [tables |-> IF probe.generation # 0
                           THEN RegExp_Put(probe.tables, source, flags, probe.value)
                           ELSE probe.tables,
              found |-> TRUE, value |-> probe.value, hits |-> 1, misses |-> 0]
        ELSE [tables |-> probe.tables, found |-> FALSE, value |-> "none",
              hits |-> 0, misses |-> 1]

----------------------------------------------------------------------------
(* The cache and its calls.                                                *)

\* Contexts: a native context, and a function context inside it.
Contexts == {"native", "function"}
IsNativeContext(context)  == context = "native"
NativeContextOf(context)  == "native"

\* The cache's own fields, as one record.
Cache ==
  [enabled |-> enabled_script_and_eval_, script |-> script_table_,
   eval_global |-> eval_global_table_,
   eval_contextual |-> eval_contextual_table_, tables |-> tables_,
   hits |-> hits, misses |-> misses]

Returned(found, value, cell) == [found |-> found, value |-> value, cell |-> cell]
\* An empty MaybeHandle or InfoCellPair, and the return of a void method.
Nothing == Returned(FALSE, "none", "none")
Void    == Returned(FALSE, "void", "none")

\* Every call records itself, the flag and the cache it found.
Called(op, args) ==
  /\ last' = [op |-> op, args |-> args, enabled |-> enabled_script_and_eval_]
  /\ pre' = Cache

\* A call without a RootVisitor gives no slot to one.
Call(op, args) ==
  /\ Called(op, args)
  /\ visited' = << >>

IsEnabledScriptAndEval == enabled_script_and_eval_

Init ==
  /\ enabled_script_and_eval_ = TRUE
  /\ script_table_ = UndefinedTable
  /\ eval_global_table_ = UndefinedTable
  /\ eval_contextual_table_ = UndefinedTable
  /\ tables_ = [g \in Generations |-> UndefinedTable]
  /\ hits = 0
  /\ misses = 0
  /\ bytecode = [f \in SharedFunctionInfos |-> IF f = "C" THEN "none" ELSE "young"]
  /\ FLAG_isolate_script_cache_ageing \in BOOLEAN
  /\ result = Void
  /\ last = [op |-> "CompilationCache", args |-> << >>, enabled |-> TRUE]
  /\ pre = [enabled |-> TRUE, script |-> UndefinedTable,
            eval_global |-> UndefinedTable, eval_contextual |-> UndefinedTable,
            tables |-> [g \in Generations |-> UndefinedTable],
            hits |-> 0, misses |-> 0]
  /\ visited = << >>
  /\ hist = << >>

LookupScript(source, script_details, language_mode) ==
  /\ hits + misses < MaxCount
  /\ Call("LookupScript", <<source, script_details, language_mode>>)
  /\ IF ~IsEnabledScriptAndEval
       THEN /\ result' = Nothing
            /\ UNCHANGED <<hits, misses>>
       ELSE LET r == Script_Lookup(script_table_, source, script_details,
                                   language_mode)
            IN  /\ result' = Returned(r.found, r.value, r.cell)
                /\ hits' = hits + r.hits
                /\ misses' = misses + r.misses
  /\ UNCHANGED <<enabled_script_and_eval_, script_table_, eval_global_table_,
                 eval_contextual_table_, tables_, bytecode,
                 FLAG_isolate_script_cache_ageing>>

\* Mutant: a LookupEval that asks the global eval region whatever the context.
LookupEvalUnrouted(source, outer_info, context, language_mode, position) ==
  /\ hits + misses < MaxCount
  /\ Call("LookupEval", <<source, outer_info, context, language_mode, position>>)
  /\ IF ~IsEnabledScriptAndEval
       THEN /\ result' = Nothing
            /\ UNCHANGED <<hits, misses>>
       ELSE LET r == Eval_Lookup(eval_global_table_, source, outer_info,
                                 NativeContextOf(context), language_mode,
                                 position)
            IN  /\ result' = Returned(r.found, r.value, r.cell)
                /\ hits' = hits + r.hits
                /\ misses' = misses + r.misses
  /\ UNCHANGED <<enabled_script_and_eval_, script_table_, eval_global_table_,
                 eval_contextual_table_, tables_, bytecode,
                 FLAG_isolate_script_cache_ageing>>

LookupEval(source, outer_info, context, language_mode, position) ==
  /\ hits + misses < MaxCount
  /\ Call("LookupEval", <<source, outer_info, context, language_mode, position>>)
  /\ IF ~IsEnabledScriptAndEval
       THEN /\ result' = Nothing
            /\ UNCHANGED <<hits, misses>>
       ELSE LET r == IF IsNativeContext(context)
                       THEN Eval_Lookup(eval_global_table_, source, outer_info,
                                        context, language_mode, position)
                       ELSE Eval_Lookup(eval_contextual_table_, source,
                                        outer_info, NativeContextOf(context),
                                        language_mode, position)
            IN  /\ result' = Returned(r.found, r.value, r.cell)
                /\ hits' = hits + r.hits
                /\ misses' = misses + r.misses
  /\ UNCHANGED <<enabled_script_and_eval_, script_table_, eval_global_table_,
                 eval_contextual_table_, tables_, bytecode,
                 FLAG_isolate_script_cache_ageing>>

LookupRegExp(source, flags) ==
  /\ hits + misses < MaxCount
  /\ Call("LookupRegExp", <<source, flags>>)
  /\ LET r == RegExp_Lookup(tables_, source, flags)
     IN  /\ result' = Returned(r.found, r.value, "none")
         /\ tables_' = r.tables
         /\ hits' = hits + r.hits
         /\ misses' = misses + r.misses
  /\ UNCHANGED <<enabled_script_and_eval_, script_table_, eval_global_table_,
                 eval_contextual_table_, bytecode,
                 FLAG_isolate_script_cache_ageing>>

\* Mutant: a PutScript that does not look at the enable flag.
PutScriptUngated(source, language_mode, function_info) ==
  /\ Call("PutScript", <<source, language_mode, function_info>>)
  /\ result' = Void
  /\ script_table_' =
       Script_Put(script_table_, source, language_mode, function_info)
  /\ UNCHANGED <<enabled_script_and_eval_, eval_global_table_,
                 eval_contextual_table_, tables_, hits, misses, bytecode,
                 FLAG_isolate_script_cache_ageing>>

PutScript(source, language_mode, function_info) ==
  /\ Call("PutScript", <<source, language_mode, function_info>>)
  /\ result' = Void
  /\ script_table_' =
       IF ~IsEnabledScriptAndEval THEN script_table_
       ELSE Script_Put(script_table_, source, language_mode, function_info)
  /\ UNCHANGED <<enabled_script_and_eval_, eval_global_table_,
                 eval_contextual_table_, tables_, hits, misses, bytecode,
                 FLAG_isolate_script_cache_ageing>>

\* Mutant: a PutEval that does not look at the enable flag.
PutEvalUngated(source, outer_info, context, function_info, feedback_cell, position) ==
  /\ Call("PutEval", <<source, outer_info, context, function_info,
                       feedback_cell, position>>)
  /\ result' = Void
  /\ IF IsNativeContext(context)
       THEN /\ eval_global_table_' =
                 Eval_Put(eval_global_table_, source, outer_info,
                          function_info, context, feedback_cell, position)
            /\ UNCHANGED eval_contextual_table_
       ELSE /\ eval_contextual_table_' =
                 Eval_Put(eval_contextual_table_, source, outer_info,
                          function_info, NativeContextOf(context),
                          feedback_cell, position)
            /\ UNCHANGED eval_global_table_
  /\ UNCHANGED <<enabled_script_and_eval_, script_table_, tables_, hits,
                 misses, bytecode, FLAG_isolate_script_cache_ageing>>

PutEval(source, outer_info, context, function_info, feedback_cell, position) ==
  /\ Call("PutEval", <<source, outer_info, context, function_info,
                       feedback_cell, position>>)
  /\ result' = Void
  /\ IF ~IsEnabledScriptAndEval
       THEN UNCHANGED <<eval_global_table_, eval_contextual_table_>>
     ELSE IF IsNativeContext(context)
       THEN /\ eval_global_table_' =
                 Eval_Put(eval_global_table_, source, outer_info,
                          function_info, context, feedback_cell, position)
            /\ UNCHANGED eval_contextual_table_
       ELSE /\ eval_contextual_table_' =
                 Eval_Put(eval_contextual_table_, source, outer_info,
                          function_info, NativeContextOf(context),
                          feedback_cell, position)
            /\ UNCHANGED eval_global_table_
  /\ UNCHANGED <<enabled_script_and_eval_, script_table_, tables_, hits,
                 misses, bytecode, FLAG_isolate_script_cache_ageing>>

PutRegExp(source, flags, data) ==
  /\ Call("PutRegExp", <<source, flags, data>>)
  /\ result' = Void
  /\ tables_' = RegExp_Put(tables_, source, flags, data)
  /\ UNCHANGED <<enabled_script_and_eval_, script_table_, eval_global_table_,
                 eval_contextual_table_, hits, misses, bytecode,
                 FLAG_isolate_script_cache_ageing>>

\* Mutant: a Remove that forgets the script region.
RemoveFromEvalOnly(function_info) ==
  /\ Call("Remove", <<function_info>>)
  /\ result' = Void
  /\ IF ~IsEnabledScriptAndEval
       THEN UNCHANGED <<script_table_, eval_global_table_,
                        eval_contextual_table_>>
       ELSE /\ eval_global_table_' =
                 EvalOrScript_Remove(eval_global_table_, function_info)
            /\ eval_contextual_table_' =
                 EvalOrScript_Remove(eval_contextual_table_, function_info)
            /\ UNCHANGED script_table_
  /\ UNCHANGED <<enabled_script_and_eval_, tables_, hits, misses, bytecode,
                 FLAG_isolate_script_cache_ageing>>

Remove(function_info) ==
  /\ Call("Remove", <<function_info>>)
  /\ result' = Void
  /\ IF ~IsEnabledScriptAndEval
       THEN UNCHANGED <<script_table_, eval_global_table_,
                        eval_contextual_table_>>
       ELSE /\ eval_global_table_' =
                 EvalOrScript_Remove(eval_global_table_, function_info)
            /\ eval_contextual_table_' =
                 EvalOrScript_Remove(eval_contextual_table_, function_info)
            /\ script_table_' = EvalOrScript_Remove(script_table_, function_info)
  /\ UNCHANGED <<enabled_script_and_eval_, tables_, hits, misses, bytecode,
                 FLAG_isolate_script_cache_ageing>>

\* Mutant: a Clear that spares the RegExp region.
CacheClearSparingRegExp ==
  /\ script_table_' = EvalOrScript_Clear(script_table_)
  /\ eval_global_table_' = EvalOrScript_Clear(eval_global_table_)
  /\ eval_contextual_table_' = EvalOrScript_Clear(eval_contextual_table_)
  /\ tables_' = tables_

\* CompilationCache::Clear, on the fields it is given.
CacheClear ==
  /\ script_table_' = EvalOrScript_Clear(script_table_)
  /\ eval_global_table_' = EvalOrScript_Clear(eval_global_table_)
  /\ eval_contextual_table_' = EvalOrScript_Clear(eval_contextual_table_)
  /\ tables_' = RegExp_Clear(tables_)

Clear ==
  /\ Call("Clear", << >>)
  /\ result' = Void
  /\ CacheClear
  /\ UNCHANGED <<enabled_script_and_eval_, hits, misses, bytecode,
                 FLAG_isolate_script_cache_ageing>>

\* Mutant: a prologue that forgets the contextual eval region.
MarkCompactPrologueSkippingContextual ==
  /\ Call("MarkCompactPrologue", << >>)
  /\ result' = Void
  /\ script_table_' =
       Script_Age(script_table_, bytecode, FLAG_isolate_script_cache_ageing)
  /\ eval_global_table_' = Eval_Age(eval_global_table_, bytecode)
  /\ eval_contextual_table_' = eval_contextual_table_
  /\ tables_' = RegExp_Age(tables_)
  /\ UNCHANGED <<enabled_script_and_eval_, hits, misses, bytecode,
                 FLAG_isolate_script_cache_ageing>>

\* CompilationCache::Iterate: the visitor starts empty and is shown the slot
\* of each region in turn.
Iterate ==
  /\ Called("Iterate", << >>)
  /\ result' = Void
  /\ visited' =
       RegExp_Iterate(
         EvalOrScript_Iterate(
           EvalOrScript_Iterate(
             EvalOrScript_Iterate(<< >>, "script_"), "eval_global_"),
           "eval_contextual_"))
  /\ UNCHANGED <<enabled_script_and_eval_, script_table_, eval_global_table_,
                 eval_contextual_table_, tables_, hits, misses, bytecode,
                 FLAG_isolate_script_cache_ageing>>

MarkCompactPrologue ==
  /\ Call("MarkCompactPrologue", << >>)
  /\ result' = Void
  /\ script_table_' =
       Script_Age(script_table_, bytecode, FLAG_isolate_script_cache_ageing)
  /\ eval_global_table_' = Eval_Age(eval_global_table_, bytecode)
  /\ eval_contextual_table_' = Eval_Age(eval_contextual_table_, bytecode)
  /\ tables_' = RegExp_Age(tables_)
  /\ UNCHANGED <<enabled_script_and_eval_, hits, misses, bytecode,
                 FLAG_isolate_script_cache_ageing>>

EnableScriptAndEval ==
  /\ Call("EnableScriptAndEval", << >>)
  /\ result' = Void
  /\ enabled_script_and_eval_' = TRUE
  /\ UNCHANGED <<script_table_, eval_global_table_, eval_contextual_table_,
                 tables_, hits, misses, bytecode,
                 FLAG_isolate_script_cache_ageing>>

\* Mutant: a Disable that hides the script and eval data instead of clearing.
DisableScriptAndEvalHiding ==
  /\ Call("DisableScriptAndEval", << >>)
  /\ result' = Void
  /\ enabled_script_and_eval_' = FALSE
  /\ UNCHANGED <<script_table_, eval_global_table_, eval_contextual_table_,
                 tables_, hits, misses, bytecode,
                 FLAG_isolate_script_cache_ageing>>

DisableScriptAndEval ==
  /\ Call("DisableScriptAndEval", << >>)
  /\ result' = Void
  /\ enabled_script_and_eval_' = FALSE
  /\ CacheClear
  /\ UNCHANGED <<hits, misses, bytecode, FLAG_isolate_script_cache_ageing>>

\* A call of HasOrigin on an artifact whose script is `script`, as Lookup
\* makes it after a structural hit; it reads no field of the cache.
CallHasOrigin(script, script_details) ==
  /\ Call("HasOrigin", <<script, script_details>>)
  /\ result' = Returned(ScriptHasOrigin(script, script_details), "none", "none")
  /\ UNCHANGED <<enabled_script_and_eval_, script_table_, eval_global_table_,
                 eval_contextual_table_, tables_, hits, misses, bytecode,
                 FLAG_isolate_script_cache_ageing>>

(* The cache's surroundings.                                               *)

\* The collector marks an artifact's bytecode old, or running it makes the
\* bytecode young again.
BytecodeAges(function_info, age) ==
  /\ bytecode[function_info] \notin {"none", age}
  /\ Call("BytecodeAges", <<function_info, age>>)
  /\ result' = Void
  /\ bytecode' = [bytecode EXCEPT ![function_info] = age]
  /\ UNCHANGED <<enabled_script_and_eval_, script_table_, eval_global_table_,
                 eval_contextual_table_, tables_, hits, misses,
                 FLAG_isolate_script_cache_ageing>>

\* The artifact of a script entry is gone and the entry holds undefined.
PrimaryValueCleared(source, language_mode) ==
  /\ ~IsUndefined(script_table_)
  /\ HasKey(script_table_, ScriptKey(source, language_mode))
  /\ ~IsUndefinedInfo(ValueAt(script_table_, ScriptKey(source, language_mode)))
  /\ Call("PrimaryValueCleared", <<source, language_mode>>)
  /\ result' = Void
  /\ script_table_' =
       TableInsert(script_table_, ScriptKey(source, language_mode),
                   UndefinedInfo)
  /\ UNCHANGED <<enabled_script_and_eval_, eval_global_table_,
                 eval_contextual_table_, tables_, hits, misses, bytecode,
                 FLAG_isolate_script_cache_ageing>>

\* An eval table is seeded with its sentinel: a Number key holding a countdown.
\* Seeding is part of inserting into the table, so it happens only while the
\* cache is enabled.
SeedSentinel(global, hash, count) ==
  /\ IsEnabledScriptAndEval
  /\ Call("SeedSentinel", <<global, hash, count>>)
  /\ result' = Void
  /\ IF global
       THEN /\ eval_global_table_' =
                 TableInsert(EvalOrScript_GetTable(eval_global_table_),
                             NumberKey(hash), count)
            /\ UNCHANGED eval_contextual_table_
       ELSE /\ eval_contextual_table_' =
                 TableInsert(EvalOrScript_GetTable(eval_contextual_table_),
                             NumberKey(hash), count)
            /\ UNCHANGED eval_global_table_
  /\ UNCHANGED <<enabled_script_and_eval_, script_table_, tables_, hits,
                 misses, bytecode, FLAG_isolate_script_cache_ageing>>

----------------------------------------------------------------------------
(* Specifications.                                                         *)

\* Spec: every call of the cache, on one key per region.
Next ==
  \/ \E d \in {DetailsOf("A"), DetailsOf("B")} :
       LookupScript("a", d, "sloppy") /\ UNCHANGED hist
  \/ \E c \in Contexts :
       LookupEval("a", "A", c, "sloppy", 0) /\ UNCHANGED hist
  \/ LookupRegExp("p", "g") /\ UNCHANGED hist
  \/ \E f \in {"A", "B"} : PutScript("a", "sloppy", f) /\ UNCHANGED hist
  \/ \E c \in Contexts, f \in {"A", "B"} :
       PutEval("a", "A", c, f, "cell", 0) /\ UNCHANGED hist
  \/ \E data \in {"D1", "D2"} : PutRegExp("p", "g", data) /\ UNCHANGED hist
  \/ \E f \in {"A", "B"} : Remove(f) /\ UNCHANGED hist
  \/ Clear /\ UNCHANGED hist
  \/ Iterate /\ UNCHANGED hist
  \/ MarkCompactPrologue /\ UNCHANGED hist
  \/ EnableScriptAndEval /\ UNCHANGED hist
  \/ DisableScriptAndEval /\ UNCHANGED hist

Spec == Init /\ [][Next]_vars

\* The scenario specifications remember the last HistLen calls.
Record ==
  hist' = IF Len(hist) < HistLen THEN Append(hist, last')
                                 ELSE Append(Tail(hist), last')

InitScenario == Init /\ FLAG_isolate_script_cache_ageing

\* SpecRegExp: the RegExp region on two keys, with the calls remembered.
NextRegExp ==
  \/ \E source \in {"p", "q"} : LookupRegExp(source, "g") /\ Record
  \/ \E put \in {<<"p", "D1">>, <<"p", "D2">>, <<"q", "D1">>} :
       PutRegExp(put[1], "g", put[2]) /\ Record
  \/ MarkCompactPrologue /\ Record
  \/ EnableScriptAndEval /\ Record
  \/ DisableScriptAndEval /\ Record

SpecRegExp == InitScenario /\ [][NextRegExp]_vars

\* SpecGate: the script and eval regions under the enable flag, on one key
\* per region, with the calls remembered.
NextGate ==
  \/ \E d \in {DetailsOf("A"), DetailsOf("B")} :
       LookupScript("a", d, "sloppy") /\ Record
  \/ \E c \in Contexts : LookupEval("a", "A", c, "sloppy", 0) /\ Record
  \/ \E f \in {"A", "B"} : PutScript("a", "sloppy", f) /\ Record
  \/ \E c \in Contexts : PutEval("a", "A", c, "A", "cell", 0) /\ Record
  \/ EnableScriptAndEval /\ Record
  \/ DisableScriptAndEval /\ Record

SpecGate == InitScenario /\ [][NextGate]_vars

\* SpecPut: the Put calls of all four regions on two keys each, one of them
\* with two values, and the ageing that rotates the RegExp generations.
TwoKeyPuts == {<<"a", "A">>, <<"a", "B">>, <<"b", "A">>}

NextPut ==
  \/ \E put \in TwoKeyPuts :
       PutScript(put[1], "sloppy", put[2]) /\ UNCHANGED hist
  \/ \E put \in TwoKeyPuts, c \in Contexts :
       PutEval(put[1], "A", c, put[2], "cell", 0) /\ UNCHANGED hist
  \/ \E put \in {<<"p", "D1">>, <<"p", "D2">>, <<"q", "D1">>} :
       PutRegExp(put[1], "g", put[2]) /\ UNCHANGED hist
  \/ MarkCompactPrologue /\ UNCHANGED hist

SpecPut == InitScenario /\ [][NextPut]_vars

\* SpecEval: the two eval regions with their sentinels, the ageing and the
\* staleness of the artifact, with the calls remembered.
NextEval ==
  \/ \E global \in BOOLEAN, count \in 1 .. MaxCountdown :
       SeedSentinel(global, "h", count) /\ Record
  \/ \E c \in Contexts : PutEval("a", "A", c, "A", "cell", 0) /\ Record
  \/ MarkCompactPrologue /\ Record
  \/ \E age \in {"young", "old"} : BytecodeAges("A", age) /\ Record

SpecEval == InitScenario /\ [][NextEval]_vars

\* SpecScriptAge: the script region on two keys, either configuration, with
\* the staleness of the artifacts and the ageing.
NextScriptAge ==
  \/ \E put \in {<<"a", "A">>, <<"b", "B">>, <<"b", "C">>} :
       PutScript(put[1], "sloppy", put[2]) /\ UNCHANGED hist
  \/ PrimaryValueCleared("b", "sloppy") /\ UNCHANGED hist
  \/ \E f \in {"A", "B"}, age \in {"young", "old"} :
       BytecodeAges(f, age) /\ UNCHANGED hist
  \/ MarkCompactPrologue /\ UNCHANGED hist

SpecScriptAge == Init /\ [][NextScriptAge]_vars

\* SpecAge: the ageing of all four regions at once, either configuration, on
\* one key per region, with the sentinels and the staleness of the artifact.
NextAge ==
  \/ PutScript("a", "sloppy", "A") /\ UNCHANGED hist
  \/ \E c \in Contexts, put \in {<<"a", "A">>, <<"b", "C">>} :
       PutEval(put[1], "A", c, put[2], "cell", 0) /\ UNCHANGED hist
  \/ PutRegExp("p", "g", "D1") /\ UNCHANGED hist
  \/ \E global \in BOOLEAN, count \in 1 .. MaxCountdown :
       SeedSentinel(global, "h", count) /\ UNCHANGED hist
  \/ \E age \in {"young", "old"} : BytecodeAges("A", age) /\ UNCHANGED hist
  \/ MarkCompactPrologue /\ UNCHANGED hist

SpecAge == Init /\ [][NextAge]_vars

\* SpecOrigin: HasOrigin on every pair of a candidate script and a request
\* drawn from small sets of names, offsets, flags and host-defined options.
\* A Symbol is a name that is not a string.
Symbol(s) == [tag |-> "symbol", val |-> s]

ScriptNames    == {Undefined, Str("x.js"), Str("y.js"), Symbol("x.js")}
RequestNames   == {NoHandle, Str("x.js"), Str("y.js"), Symbol("x.js")}
Offsets        == {0, 1}
OriginFlags    == {0, 1}
ScriptOptions  == {<< >>, <<Str("o1")>>, <<NaN>>}
RequestOptions == {NoArray, SomeArray(<<Str("o1")>>), SomeArray(<<Str("o2")>>),
                   SomeArray(<<NaN>>), SomeArray(<<Str("o1"), Str("o1")>>)}

\* The candidates are scripts loaded at the start of their resource.
CandidateScripts ==
  {Script(name, 0, 0, 0, options) :
     name \in ScriptNames, options \in ScriptOptions}

Requests ==
  {ScriptDetails(name, line, column, flags, options) :
     name \in RequestNames, line \in Offsets, column \in Offsets,
     flags \in OriginFlags, options \in RequestOptions}

NextOrigin ==
  \E script \in CandidateScripts, script_details \in Requests :
    CallHasOrigin(script, script_details) /\ UNCHANGED hist

SpecOrigin == InitScenario /\ [][NextOrigin]_vars

----------------------------------------------------------------------------
(* Claims.                                                                 *)

\* Some generation of tabs holds the key.
RegExpHolds(tabs, source, flags) ==
  \E g \in Generations : HasKey(tabs[g], RegExpKey(source, flags))

\* The data of the newest generation of tabs that holds the key.
RegExpNewest(tabs, source, flags) ==
  LET g == CHOOSE g \in Generations :
             /\ HasKey(tabs[g], RegExpKey(source, flags))
             /\ \A h \in 0 .. (g - 1) : ~HasKey(tabs[h], RegExpKey(source, flags))
  IN  ValueAt(tabs[g], RegExpKey(source, flags))

AllRegExpAbsent(tabs) == \A g \in Generations : IsUndefined(tabs[g])

\* C1 as stated: DisableScriptAndEval leaves every RegExp generation table
\* as it was, so that a pattern stored before it is still found.
C1_DisableKeepsRegExp ==
  last.op = "DisableScriptAndEval" => tables_ = pre.tables

\* C1, amended: DisableScriptAndEval runs Clear, which makes the tables of
\* all four regions absent, the RegExp generations included; the RegExp
\* region is independent of the flag only in that LookupRegExp hits, with the
\* newest stored data, exactly when some generation held the key, whether the
\* flag is true or false.
C1_DisableClearsAllRegions ==
  /\ last.op = "DisableScriptAndEval" =>
       /\ ~enabled_script_and_eval_
       /\ IsUndefined(script_table_)
       /\ IsUndefined(eval_global_table_)
       /\ IsUndefined(eval_contextual_table_)
       /\ AllRegExpAbsent(tables_)
  /\ last.op = "LookupRegExp" =>
       /\ result.found = RegExpHolds(pre.tables, last.args[1], last.args[2])
       /\ result.found =>
            result.value = RegExpNewest(pre.tables, last.args[1], last.args[2])

\* A Disable that found a stored pattern and a stored script.
C1_Witness ==
  /\ last.op = "DisableScriptAndEval"
  /\ RegExpHolds(pre.tables, "p", "g")
  /\ HasKey(pre.script, ScriptKey("a", "sloppy"))
  /\ AllRegExpAbsent(tables_)

\* The Put call `put` stores under the key the lookup call `look` asks for.
SameScriptKey(put, look) ==
  /\ put.op = "PutScript" /\ look.op = "LookupScript"
  /\ put.args[1] = look.args[1]
  /\ put.args[2] = look.args[3]

SameEvalKey(put, look) ==
  /\ put.op = "PutEval" /\ look.op = "LookupEval"
  /\ put.args[1] = look.args[1]
  /\ put.args[2] = look.args[2]
  /\ IsNativeContext(put.args[3]) = IsNativeContext(look.args[3])
  /\ NativeContextOf(put.args[3]) = NativeContextOf(look.args[3])
  /\ LanguageModeOf(put.args[4]) = look.args[4]
  /\ put.args[6] = look.args[5]

\* C2: once DisableScriptAndEval has been called, a LookupScript or
\* LookupEval hits only if, after that Disable, a PutScript or PutEval for
\* the same key was made while the flag was true; so lookups miss right
\* after Disable and keep missing after an Enable alone.
C2_DisableDestroys ==
  \A d \in 1 .. (Len(hist) - 1) :
    ( /\ hist[d].op = "DisableScriptAndEval"
      /\ last.op \in {"LookupScript", "LookupEval"}
      /\ result.found )
    => \E j \in (d + 1) .. (Len(hist) - 1) :
         /\ hist[j].enabled
         /\ SameScriptKey(hist[j], last) \/ SameEvalKey(hist[j], last)

\* Put while enabled, Disable, Enable, and the lookup of that key misses.
C2_Witness ==
  /\ Len(hist) = 4
  /\ hist[1].op = "PutScript" /\ hist[1].enabled
  /\ hist[1].args = <<"a", "sloppy", "A">>
  /\ hist[2].op = "DisableScriptAndEval"
  /\ hist[3].op = "EnableScriptAndEval"
  /\ hist[4].op = "LookupScript"
  /\ hist[4].args = <<"a", DetailsOf("A"), "sloppy">>
  /\ enabled_script_and_eval_
  /\ ~result.found

\* C3: a LookupScript on a key whose entry holds artifact A returns A if
\* and only if HasOrigin matches A's script with the request, and leaves the
\* table as it was; with A stored, the request of B's place (another name)
\* misses and the request of A's place hits, also after mismatching lookups.
C3_OriginDisambiguation ==
  /\ ( /\ last.op = "LookupScript"
       /\ pre.enabled
       /\ HasKey(pre.script, ScriptKey(last.args[1], last.args[3])) )
     => LET A == ValueAt(pre.script, ScriptKey(last.args[1], last.args[3]))
        IN  /\ result.found = HasOrigin(A, last.args[2])
            /\ result.found => result.value = A
            /\ A = "A" /\ last.args[2] = DetailsOf("B") => ~result.found
            /\ A = "A" /\ last.args[2] = DetailsOf("A") => result.found
            /\ script_table_ = pre.script
  /\ \A i \in 1 .. (Len(hist) - 1) :
       ( /\ hist[i].op = "PutScript" /\ hist[i].enabled
         /\ \A j \in (i + 1) .. Len(hist) : hist[j].op = "LookupScript"
         /\ SameScriptKey(hist[i], last) )
       => /\ result.found = HasOrigin(hist[i].args[3], last.args[2])
          /\ result.found => result.value = hist[i].args[3]

\* PutScript of A, a lookup from B's place that misses, then a lookup from
\* A's place that hits.
C3_Witness ==
  /\ Len(hist) >= 3
  /\ LET n == Len(hist)
     IN  /\ hist[n - 2].op = "PutScript" /\ hist[n - 2].enabled
         /\ hist[n - 2].args = <<"a", "sloppy", "A">>
         /\ hist[n - 1].op = "LookupScript"
         /\ hist[n - 1].args = <<"a", DetailsOf("B"), "sloppy">>
         /\ hist[n].op = "LookupScript"
         /\ hist[n].args = <<"a", DetailsOf("A"), "sloppy">>
  /\ misses >= 1
  /\ result.found /\ result.value = "A"

\* Every table of the cache.
AllTables ==
  {script_table_, eval_global_table_, eval_contextual_table_}
    \cup {tables_[g] : g \in Generations}

EntriesWithKey(table, key) == {e \in table.entries : e.key = key}

\* After a Put of (key, value) into a region that held `before`, the table
\* `after` has exactly one entry for the key, holding the value, and every
\* entry `before` had under another key.
PutLanded(before, after, key, value) ==
  /\ ~IsUndefined(after)
  /\ EntriesWithKey(after, key) = {Entry(key, value)}
  /\ \A e \in before.entries : e.key # key => e \in after.entries

LeftAloneSince(i) ==
  \A j \in (i + 1) .. Len(hist) :
    \/ hist[j].op \in {"MarkCompactPrologue", "EnableScriptAndEval"}
    \/ /\ hist[j].op \in {"PutRegExp", "LookupRegExp"}
       /\ <<hist[j].args[1], hist[j].args[2]>> # <<hist[i].args[1], hist[i].args[2]>>

AgesSince(i) ==
  Cardinality({j \in (i + 1) .. Len(hist) : hist[j].op = "MarkCompactPrologue"})

\* C5: one Age makes every generation i >= 1 the table generation i - 1
\* was and generation 0 absent; so an entry put into generation 0 and then
\* left alone is in generation j after j <= kGenerations - 1 calls of Age, and
\* in no generation after kGenerations of them.
C5_AgeRotates ==
  /\ last.op = "MarkCompactPrologue" =>
       /\ \A i \in 1 .. (kGenerations - 1) : tables_[i] = pre.tables[i - 1]
       /\ IsUndefined(tables_[0])
  /\ \A i \in 1 .. Len(hist) :
       hist[i].op = "PutRegExp" /\ LeftAloneSince(i) =>
         LET key == RegExpKey(hist[i].args[1], hist[i].args[2])
             n   == AgesSince(i)
         IN  IF n <= kGenerations - 1
               THEN /\ HasKey(tables_[n], key)
                    /\ ValueAt(tables_[n], key) = hist[i].args[3]
               ELSE ~RegExpHolds(tables_, hist[i].args[1], hist[i].args[2])

\* A Put followed by kGenerations calls of Age: the entry is gone.
C5_Witness ==
  /\ Len(hist) >= kGenerations + 1
  /\ LET i == Len(hist) - kGenerations
     IN  /\ hist[i].op = "PutRegExp" /\ hist[i].args = <<"p", "g", "D1">>
         /\ \A j \in (i + 1) .. Len(hist) : hist[j].op = "MarkCompactPrologue"
  /\ ~RegExpHolds(tables_, "p", "g")

\* The newest generation of tabs that holds the key, kGenerations if none.
FirstHit(tabs, source, flags) ==
  IF RegExpHolds(tabs, source, flags)
    THEN CHOOSE g \in Generations :
           /\ HasKey(tabs[g], RegExpKey(source, flags))
           /\ \A h \in 0 .. (g - 1) : ~HasKey(tabs[h], RegExpKey(source, flags))
    ELSE kGenerations

\* C6: a LookupRegExp whose first hit is in generation g > 0 returns that
\* generation's data, adds the entry to generation 0 and removes nothing
\* from any generation; one whose first hit is in generation 0 changes the
\* entries of no generation.
C6_PromotionOnHit ==
  last.op = "LookupRegExp" =>
    LET key == RegExpKey(last.args[1], last.args[2])
        g   == FirstHit(pre.tables, last.args[1], last.args[2])
    IN  /\ g \in 1 .. (kGenerations - 1) =>
             /\ result.found
             /\ result.value = ValueAt(pre.tables[g], key)
             /\ tables_[0].entries =
                  pre.tables[0].entries \cup {Entry(key, result.value)}
             /\ \A h \in 1 .. (kGenerations - 1) :
                  tables_[h].entries = pre.tables[h].entries
        /\ g = 0 =>
             /\ result.found
             /\ result.value = ValueAt(pre.tables[0], key)
             /\ \A h \in Generations : tables_[h].entries = pre.tables[h].entries

\* A lookup that found the key in generation 1 only and promoted it.
C6_Witness ==
  /\ last.op = "LookupRegExp" /\ last.args = <<"p", "g">>
  /\ ~HasKey(pre.tables[0], RegExpKey("p", "g"))
  /\ HasKey(pre.tables[1], RegExpKey("p", "g"))
  /\ HasKey(tables_[0], RegExpKey("p", "g"))
  /\ HasKey(tables_[1], RegExpKey("p", "g"))
  /\ result.found

\* hist ends with PutRegExp(p, f, D); Age; LookupRegExp(p, f); Age.
PutAgeLookupAge(source, flags, data) ==
  /\ Len(hist) = 4
  /\ hist[1].op = "PutRegExp" /\ hist[1].args = <<source, flags, data>>
  /\ hist[2].op = "MarkCompactPrologue"
  /\ hist[3].op = "LookupRegExp" /\ hist[3].args = <<source, flags>>
  /\ hist[4].op = "MarkCompactPrologue"

\* C7 as stated (kGenerations = 2): after PutRegExp(p, f, D); Age;
\* LookupRegExp(p, f); Age no generation holds (p, f).
C7_EvictedAfterSecondAge ==
  \A data \in {"D1", "D2"} :
    PutAgeLookupAge("p", "g", data) => ~RegExpHolds(tables_, "p", "g")

\* C7, amended (kGenerations = 2): the lookup's promotion is a Put into
\* generation 0, so after PutRegExp(p, f, D); Age; LookupRegExp(p, f); Age
\* generation 1 holds (p, f) with D, generation 0 is absent, and a
\* LookupRegExp(p, f) hits with D.
C7_PromotedCopySurvivesSecondAge ==
  \A data \in {"D1", "D2"} :
    PutAgeLookupAge("p", "g", data) =>
      /\ IsUndefined(tables_[0])
      /\ HasKey(tables_[1], RegExpKey("p", "g"))
      /\ ValueAt(tables_[1], RegExpKey("p", "g")) = data
      /\ RegExp_Lookup(tables_, "p", "g").found
      /\ RegExp_Lookup(tables_, "p", "g").value = data

C7_Witness ==
  /\ PutAgeLookupAge("p", "g", "D1")
  /\ HasKey(tables_[1], RegExpKey("p", "g"))

Sentinels(table)  == {e \in table.entries : KeyIsNumber(e.key)}
Structural(table) == {e \in table.entries : ~KeyIsNumber(e.key)}

\* One Age of an eval table: every sentinel with a count above 1 stays with
\* the count lowered by 1, every sentinel with count 1 goes, no sentinel
\* appears; the structural entries kept are those whose bytecode is not old,
\* whatever the sentinel.
SentinelCountedDown(before, after) ==
  /\ \A e \in Sentinels(before) :
       IF e.value > 1
         THEN Entry(e.key, e.value - 1) \in after.entries /\ e.value - 1 >= 1
         ELSE ~HasKey(after, e.key)
  /\ \A e \in Sentinels(after) : Entry(e.key, e.value + 1) \in before.entries
  /\ Structural(after) =
       {e \in Structural(before) : bytecode[e.value.shared] # "old"}

EvalTableOf(global) ==
  IF global THEN eval_global_table_ ELSE eval_contextual_table_

\* The calls after position i of hist do not seed the region of hist[i] anew.
NotSeededSince(i) ==
  \A j \in (i + 1) .. Len(hist) :
    hist[j].op = "SeedSentinel" => hist[j].args[1] # hist[i].args[1]

\* C8: one Age lowers every sentinel's countdown by exactly 1 and removes
\* the sentinel whose countdown reaches 0, without regard to and without
\* effect on the structural entries; so a sentinel seeded with K is present
\* with K - j after j < K calls of Age and absent after K of them.
C8_SentinelCountdown ==
  /\ last.op = "MarkCompactPrologue" =>
       /\ SentinelCountedDown(pre.eval_global, eval_global_table_)
       /\ SentinelCountedDown(pre.eval_contextual, eval_contextual_table_)
  /\ \A i \in 1 .. Len(hist) :
       hist[i].op = "SeedSentinel" /\ NotSeededSince(i) =>
         LET table == EvalTableOf(hist[i].args[1])
             key   == NumberKey(hist[i].args[2])
             K     == hist[i].args[3]
             n     == AgesSince(i)
         IN  IF n < K
               THEN HasKey(table, key) /\ ValueAt(table, key) = K - n
               ELSE ~HasKey(table, key)

\* A sentinel seeded with 2 next to a structural entry: the first Age left
\* it with 1, the second removed it and kept the structural entry.
C8_Witness ==
  /\ Len(hist) = 4
  /\ hist[1].op = "PutEval" /\ hist[1].args[3] = "native"
  /\ hist[2].op = "SeedSentinel" /\ hist[2].args = <<TRUE, "h", 2>>
  /\ hist[3].op = "MarkCompactPrologue"
  /\ hist[4].op = "MarkCompactPrologue"
  /\ Sentinels(pre.eval_global) = {Entry(NumberKey("h"), 1)}
  /\ Sentinels(eval_global_table_) = {}
  /\ Structural(eval_global_table_) # {}

Lookups == {"LookupScript", "LookupEval", "LookupRegExp"}
Puts    == {"PutScript", "PutEval", "PutRegExp"}

\* The last call raised exactly one counter by exactly 1: hits when it
\* returned an artifact, misses when it did not.
CountedOnce ==
  /\ hits + misses = pre.hits + pre.misses + 1
  /\ hits = pre.hits + (IF result.found THEN 1 ELSE 0)
  /\ misses = pre.misses + (IF result.found THEN 0 ELSE 1)

Uncounted == hits = pre.hits /\ misses = pre.misses

\* C9 as stated: every lookup call, the flag false included, raises exactly
\* one counter by 1, and no Put changes a counter.
C9_EveryLookupCounted ==
  /\ last.op \in Lookups => CountedOnce
  /\ last.op \in Puts => Uncounted

\* C9, amended: every LookupRegExp, and every LookupScript and LookupEval
\* called while the flag is true, raises exactly one counter by 1 (hits iff
\* it returns an artifact, a promotion's internal Put adding nothing); a
\* LookupScript or LookupEval called while the flag is false returns a miss
\* and changes neither counter; no Put changes a counter.
C9_CounterExactness ==
  /\ last.op = "LookupRegExp" => CountedOnce
  /\ last.op \in {"LookupScript", "LookupEval"} /\ pre.enabled => CountedOnce
  /\ last.op \in {"LookupScript", "LookupEval"} /\ ~pre.enabled =>
       ~result.found /\ Uncounted
  /\ last.op \in Puts => Uncounted

\* A LookupEval made while the flag is false, after an earlier counted lookup.
C9_Witness ==
  /\ last.op = "LookupEval"
  /\ ~pre.enabled
  /\ pre.hits + pre.misses >= 1
  /\ ~result.found
  /\ Uncounted

\* C10: while the flag is false LookupScript and LookupEval miss and
\* PutScript and PutEval leave every field of the cache as it was; PutRegExp
\* stores into generation 0 and LookupRegExp hits exactly when a generation
\* holds the key, the flag being true or false.
C10_FlagGating ==
  /\ last.op \in {"LookupScript", "LookupEval"} /\ ~pre.enabled =>
       result = Nothing
  /\ last.op \in {"PutScript", "PutEval"} /\ ~pre.enabled => Cache = pre
  /\ last.op = "PutRegExp" =>
       /\ PutLanded(pre.tables[0], tables_[0],
                    RegExpKey(last.args[1], last.args[2]), last.args[3])
       /\ \A g \in 1 .. (kGenerations - 1) : tables_[g] = pre.tables[g]
  /\ last.op = "LookupRegExp" =>
       result.found = RegExpHolds(pre.tables, last.args[1], last.args[2])

\* A PutScript made while the flag is false, with a pattern in the RegExp
\* region that a disabled cache still holds.
C10_Witness ==
  /\ last.op = "PutScript"
  /\ ~pre.enabled
  /\ Cache = pre
  /\ IsUndefined(script_table_)
  /\ RegExpHolds(tables_, "p", "g")

\* Remove(function_info) on one region: an absent table stays absent, a table
\* stays a table, and its entries are those that held another value.
RemovedFrom(before, after, function_info) ==
  /\ IsUndefined(after) = IsUndefined(before)
  /\ after.entries =
       {e \in before.entries : PrimaryValueAt(e) # function_info}

\* C11: Remove(artifact) called while the flag is true leaves in the script
\* and the two eval regions exactly the entries that held another artifact
\* (so no lookup of a key of these regions returns the artifact), leaves
\* absent tables absent and leaves the RegExp region, the flag and the
\* counters as they were; called while the flag is false it changes nothing.
C11_RemoveFrame ==
  last.op = "Remove" =>
    IF pre.enabled
      THEN /\ RemovedFrom(pre.script, script_table_, last.args[1])
           /\ RemovedFrom(pre.eval_global, eval_global_table_, last.args[1])
           /\ RemovedFrom(pre.eval_contextual, eval_contextual_table_,
                          last.args[1])
           /\ \A d \in {DetailsOf("A"), DetailsOf("B")} :
                Script_Lookup(script_table_, "a", d, "sloppy").value
                  # last.args[1]
           /\ \A c \in Contexts :
                Eval_Lookup(IF IsNativeContext(c) THEN eval_global_table_
                                                  ELSE eval_contextual_table_,
                            "a", "A", NativeContextOf(c), "sloppy", 0).value
                  # last.args[1]
           /\ tables_ = pre.tables
           /\ enabled_script_and_eval_ = pre.enabled
           /\ Uncounted
      ELSE Cache = pre

\* Remove(A) with A in the script region and in the global eval region, B in
\* the contextual eval region, and a pattern in the RegExp region.
C11_Witness ==
  /\ last.op = "Remove" /\ last.args = <<"A">> /\ pre.enabled
  /\ HasKey(pre.script, ScriptKey("a", "sloppy"))
  /\ ValueAt(pre.script, ScriptKey("a", "sloppy")) = "A"
  /\ \E e \in pre.eval_global.entries : PrimaryValueAt(e) = "A"
  /\ \E e \in pre.eval_contextual.entries : PrimaryValueAt(e) = "B"
  /\ script_table_ = NewTable
  /\ eval_global_table_ = NewTable
  /\ eval_contextual_table_ = pre.eval_contextual
  /\ RegExpHolds(tables_, "p", "g")

\* Every table slot of the cache: one per script or eval region, kGenerations
\* for the RegExp region.
RegionSlots == {TableSlot(r) : r \in {"script_", "eval_global_", "eval_contextual_"}}
RegExpSlots == {TablesSlot(g) : g \in Generations}

\* The positions of visited at which the visitor was given the slot.
VisitsOf(slot) == {i \in 1 .. Len(visited) : visited[i] = slot}

\* C13: one Iterate gives the visitor each table slot of the cache exactly
\* once, 3 + kGenerations slots in all and nothing else, the RegExp slots
\* next to one another in the order of their generations, whether a slot
\* holds a table or is absent; and Iterate changes no field of the cache.
C13_IterateVisitsEachSlotOnce ==
  last.op = "Iterate" =>
    /\ Len(visited) = 3 + kGenerations
    /\ \A slot \in RegionSlots \cup RegExpSlots :
         Cardinality(VisitsOf(slot)) = 1
    /\ \A i \in 1 .. Len(visited) : visited[i] \in RegionSlots \cup RegExpSlots
    /\ \E first \in 1 .. Len(visited) :
         \A g \in Generations : visited[first + g] = TablesSlot(g)
    /\ Cache = pre

\* An Iterate over a cache whose script slot holds a table, whose contextual
\* eval slot is absent, and whose RegExp slots are one absent and one a table.
C13_Witness ==
  /\ last.op = "Iterate"
  /\ ~IsUndefined(script_table_)
  /\ IsUndefined(eval_contextual_table_)
  /\ IsUndefined(tables_[0])
  /\ ~IsUndefined(tables_[1])
  /\ Len(visited) = 3 + kGenerations

\* Every slot with what it held before the last call and what it holds now.
SlotsBeforeAndAfter ==
  {<<TableSlot("script_"), pre.script, script_table_>>,
   <<TableSlot("eval_global_"), pre.eval_global, eval_global_table_>>,
   <<TableSlot("eval_contextual_"), pre.eval_contextual, eval_contextual_table_>>}
    \cup {<<TablesSlot(g), pre.tables[g], tables_[g]>> : g \in Generations}

\* The slots that were absent before the last call and hold a table after it.
Allocated ==
  {s[1] : s \in {t \in SlotsBeforeAndAfter :
                   IsUndefined(t[2]) /\ ~IsUndefined(t[3])}}

\* The slot a Put call stores into.
PutTarget(call) ==
  CASE call.op = "PutScript" -> TableSlot("script_")
    [] call.op = "PutEval"   -> IF IsNativeContext(call.args[3])
                                  THEN TableSlot("eval_global_")
                                  ELSE TableSlot("eval_contextual_")
    [] call.op = "PutRegExp" -> TablesSlot(0)

\* C14 as stated: a slot changes from absent to a newly allocated table only
\* by a Put into its region and generation (the rotation of Age moves tables
\* and allocates none); no lookup, hit or miss, of any region turns an absent
\* slot into a table.
C14_AllocationOnlyOnPut ==
  /\ last.op \in Lookups => Allocated = {}
  /\ last.op \in Puts => Allocated \subseteq {PutTarget(last)}
  /\ last.op \notin Lookups \cup Puts \cup {"MarkCompactPrologue"} =>
       Allocated = {}

\* The stored value is an artifact with a bytecode array that is marked old.
HoldsOldBytecode(value) ==
  /\ value \in SharedFunctionInfos
  /\ bytecode[value] = "old"

\* C12: one Age of the script region, with script-cache ageing configured and
\* a table present, removes exactly the entries whose value is an artifact
\* with a bytecode array marked old, and keeps every entry whose value is
\* undefined, has no bytecode array or has bytecode that is not old; with the
\* ageing not configured, or the table absent, the slot is left as it was
\* (an absent table stays absent).
C12_ScriptAgeSweep ==
  last.op = "MarkCompactPrologue" =>
    IF FLAG_isolate_script_cache_ageing /\ ~IsUndefined(pre.script)
      THEN /\ ~IsUndefined(script_table_)
           /\ script_table_.entries =
                {e \in pre.script.entries : ~HoldsOldBytecode(e.value)}
           /\ \A e \in pre.script.entries :
                ( \/ IsUndefinedInfo(e.value)
                  \/ bytecode[e.value] \in {"none", "young"} )
                => e \in script_table_.entries
      ELSE script_table_ = pre.script

\* An Age that found A with old bytecode next to an entry holding undefined:
\* A's entry is gone, the other is kept.
C12_Witness ==
  /\ last.op = "MarkCompactPrologue"
  /\ FLAG_isolate_script_cache_ageing
  /\ Entry(ScriptKey("a", "sloppy"), "A") \in pre.script.entries
  /\ bytecode["A"] = "old"
  /\ Entry(ScriptKey("b", "sloppy"), UndefinedInfo) \in pre.script.entries
  /\ script_table_.entries = {Entry(ScriptKey("b", "sloppy"), UndefinedInfo)}

\* The host-defined options of a request, an absent array counting as empty.
OptionsOf(script_details) ==
  IF script_details.host_defined_options.has
    THEN script_details.host_defined_options.array
    ELSE << >>

\* Two option sequences have equal length and are pairwise strictly equal.
OptionsMatch(a, b) ==
  /\ Len(a) = Len(b)
  /\ \A i \in 1 .. Len(a) : a[i] = b[i] /\ a[i] # NaN /\ b[i] # NaN

\* The checks of a named request, as a set: it has no order.
OriginChecks(script, script_details) ==
  { OptionsMatch(OptionsOf(script_details), script.host_defined_options),
    script_details.name_obj.tag = "string" /\ script.name.tag = "string",
    script_details.name_obj.val = script.name.val,
    script_details.origin_options = script.origin_options,
    script_details.column_offset = script.column_offset,
    script_details.line_offset = script.line_offset }

\* C15: for a request that has a name, HasOrigin returns true if and only if
\* the line offsets are equal, the column offsets are equal, the origin flags
\* are equal, both names are strings of equal content, and the host-defined
\* options (an absent request array counting as empty) have equal length and
\* are pairwise strictly equal; the result is the conjunction of these checks
\* taken in any order.
C15_NamedRequestConjunction ==
  last.op = "HasOrigin" /\ last.args[2].name_obj # NoHandle =>
    result.found = (\A check \in OriginChecks(last.args[1], last.args[2]) : check)

\* A named request that matches on everything, a host-defined option
\* included.
C15_Witness ==
  /\ last.op = "HasOrigin"
  /\ last.args[1] = Script(Str("x.js"), 0, 0, 0, <<Str("o1")>>)
  /\ last.args[2] = ScriptDetails(Str("x.js"), 0, 0, 0, SomeArray(<<Str("o1")>>))
  /\ result.found

\* C16: for a request without a name, HasOrigin returns true if and only if
\* the candidate script's name is undefined; offsets, origin flags and
\* host-defined options are not compared, so it returns the same for every
\* request without a name.
C16_NamelessRequest ==
  last.op = "HasOrigin" /\ last.args[2].name_obj = NoHandle =>
    /\ result.found = (last.args[1].name = Undefined)
    /\ \A other \in Requests :
         other.name_obj = NoHandle =>
           ScriptHasOrigin(last.args[1], other) = result.found

\* A request without a name matches a script without a name although line
\* offset, column offset, origin flags and host-defined options all differ.
C16_Witness ==
  /\ last.op = "HasOrigin"
  /\ last.args[1] = Script(Undefined, 0, 0, 0, <<Str("o1")>>)
  /\ last.args[2] = ScriptDetails(NoHandle, 1, 1, 1, SomeArray(<<Str("o2")>>))
  /\ result.found

\* hist holds a PutScript of fa under the key of the last call, then at
\* position j a PutScript of fb under it, and no PutScript of that key after;
\* the last call is a LookupScript.
PutThenPut(fa, fb, j) ==
  /\ last.op = "LookupScript"
  /\ hist[j].op = "PutScript" /\ hist[j].args[3] = fb
  /\ SameScriptKey(hist[j], last)
  /\ \E i \in 1 .. (j - 1) :
       /\ hist[i].op = "PutScript" /\ hist[i].args[3] = fa
       /\ SameScriptKey(hist[i], last)
  /\ \A k \in (j + 1) .. Len(hist) : ~SameScriptKey(hist[k], last)

\* Pairs of artifacts whose provenances do not match each other.
DifferentOrigins ==
  {pair \in {"A", "B"} \X {"A", "B"} :
     /\ ~HasOrigin(pair[1], DetailsOf(pair[2]))
     /\ ~HasOrigin(pair[2], DetailsOf(pair[1]))}

\* The calls of hist after position j that can take an entry out of the
\* script region.
RemovedSince(j) ==
  \E k \in (j + 1) .. Len(hist) :
    hist[k].op \in {"DisableScriptAndEval", "Clear", "Remove",
                    "MarkCompactPrologue"}

ProbedGenerations(tabs, source, flags) ==
  {g \in Generations : g <= FirstHit(tabs, source, flags)}

\* C18: LookupRegExp probes the generations 0, 1, ... in that order and
\* returns the data of the first that holds the key, leaving the generations
\* after it unprobed; so after PutRegExp(p, f, D1); Age; PutRegExp(p, f, D2)
\* it returns D2 and not D1; a lookup that finds the key in no generation
\* returns a miss that raises the miss counter by 1 and no other counter.
C18_NewestSurvivingValue ==
  /\ last.op = "LookupRegExp" =>
       LET source == last.args[1]
           flags  == last.args[2]
           g      == FirstHit(pre.tables, source, flags)
       IN  /\ result.found = (g < kGenerations)
           /\ result.found =>
                /\ result.value = ValueAt(pre.tables[g], RegExpKey(source, flags))
                /\ hits = pre.hits + 1 /\ misses = pre.misses
           /\ ~result.found =>
                /\ result.value = "none"
                /\ misses = pre.misses + 1 /\ hits = pre.hits
           /\ \A h \in Generations \ ProbedGenerations(pre.tables, source, flags) :
                tables_[h] = pre.tables[h]
  /\ ( /\ Len(hist) >= 4
       /\ LET n == Len(hist)
          IN  /\ hist[n - 3].op = "PutRegExp"
              /\ hist[n - 3].args = <<"p", "g", "D1">>
              /\ hist[n - 2].op = "MarkCompactPrologue"
              /\ hist[n - 1].op = "PutRegExp"
              /\ hist[n - 1].args = <<"p", "g", "D2">>
              /\ hist[n].op = "LookupRegExp"
              /\ hist[n].args = <<"p", "g">> )
     => result.found /\ result.value = "D2" /\ result.value # "D1"

\* PutRegExp of D1, Age, PutRegExp of D2, and the lookup: D2 is in
\* generation 0, D1 still in generation 1, and D2 is returned.
C18_Witness ==
  /\ Len(hist) = 4
  /\ hist[1].op = "PutRegExp" /\ hist[1].args = <<"p", "g", "D1">>
  /\ hist[2].op = "MarkCompactPrologue"
  /\ hist[3].op = "PutRegExp" /\ hist[3].args = <<"p", "g", "D2">>
  /\ hist[4].op = "LookupRegExp" /\ hist[4].args = <<"p", "g">>
  /\ ValueAt(pre.tables[0], RegExpKey("p", "g")) = "D2"
  /\ ValueAt(pre.tables[1], RegExpKey("p", "g")) = "D1"
  /\ result.found /\ result.value = "D2"

\* The four regions of the cache and the Age of one of them, applied to a
\* cache record.
Regions == {"script_", "eval_global_", "eval_contextual_", "reg_exp_"}

AgeRegion(region, cache) ==
  CASE region = "script_" ->
         [cache EXCEPT !.script =
            Script_Age(@, bytecode, FLAG_isolate_script_cache_ageing)]
    [] region = "eval_global_" ->
         [cache EXCEPT !.eval_global = Eval_Age(@, bytecode)]
    [] region = "eval_contextual_" ->
         [cache EXCEPT !.eval_contextual = Eval_Age(@, bytecode)]
    [] region = "reg_exp_" ->
         [cache EXCEPT !.tables = RegExp_Age(@)]

\* The region Age steps applied in the order of the sequence.
RECURSIVE AgeInOrder(_, _)
AgeInOrder(order, cache) ==
  IF order = << >> THEN cache
  ELSE AgeInOrder(Tail(order), AgeRegion(Head(order), cache))

\* Every order of the four regions.
RegionOrders ==
  {order \in [1 .. 4 -> Regions] :
     \A i, j \in 1 .. 4 : order[i] = order[j] => i = j}

\* C19: MarkCompactPrologue leaves the cache as the Age of each of the four
\* regions, applied once each, leaves it, and that is the same cache for
\* every order of the four Age steps; the flag and the counters stay.
C19_AgeOrderInsignificant ==
  last.op = "MarkCompactPrologue" =>
    \A order \in RegionOrders : AgeInOrder(order, pre) = Cache

\* A prologue on a cache where every region has something to age: a script
\* and a global eval entry with old bytecode, a sentinel counting down in the
\* contextual eval table, a pattern in generation 0; one Age more would
\* change the cache again.
C19_Witness ==
  /\ last.op = "MarkCompactPrologue"
  /\ FLAG_isolate_script_cache_ageing
  /\ bytecode["A"] = "old"
  /\ pre.script.entries # {} /\ script_table_.entries = {}
  /\ Structural(pre.eval_global) # {}
  /\ Cardinality(eval_global_table_.entries) < Cardinality(pre.eval_global.entries)
  /\ Entry(NumberKey("h"), 2) \in pre.eval_contextual.entries
  /\ Entry(NumberKey("h"), 1) \in eval_contextual_table_.entries
  /\ HasKey(pre.tables[0], RegExpKey("p", "g"))
  /\ HasKey(tables_[1], RegExpKey("p", "g"))
  /\ AgeInOrder(<<"eval_contextual_", "reg_exp_">>, Cache) # Cache

\* C20: one Age of an eval region whose table is present removes every
\* structural entry whose artifact has a bytecode array marked old and keeps
\* every other structural entry, with script-cache ageing configured or not;
\* an absent table is left absent.
C20_EvalAgeStructural ==
  last.op = "MarkCompactPrologue" =>
    \A slot \in {<<pre.eval_global, eval_global_table_>>,
                 <<pre.eval_contextual, eval_contextual_table_>>} :
      IF IsUndefined(slot[1])
        THEN slot[2] = slot[1]
        ELSE /\ ~IsUndefined(slot[2])
             /\ Structural(slot[2]) =
                  {e \in Structural(slot[1]) : ~HoldsOldBytecode(e.value.shared)}

\* An Age with script-cache ageing not configured: the global eval table
\* loses the entry of A, whose bytecode is old, and keeps the entry of C,
\* which has no bytecode array; the script entry of A stays.
C20_Witness ==
  /\ last.op = "MarkCompactPrologue"
  /\ ~FLAG_isolate_script_cache_ageing
  /\ bytecode["A"] = "old"
  /\ {e.value.shared : e \in Structural(pre.eval_global)} = {"A", "C"}
  /\ {e.value.shared : e \in Structural(eval_global_table_)} = {"C"}
  /\ IsUndefined(pre.eval_contextual) /\ IsUndefined(eval_contextual_table_)
  /\ script_table_.entries = {Entry(ScriptKey("a", "sloppy"), "A")}

\* The script table and both eval tables are absent.
ScriptAndEvalAbsent ==
  /\ IsUndefined(script_table_)
  /\ IsUndefined(eval_global_table_)
  /\ IsUndefined(eval_contextual_table_)

\* C21: in every state reached from construction by Lookup, Put, Remove,
\* Clear, Age, Iterate, Enable and Disable calls, the flag being false implies
\* that the script table and both eval tables are absent; so the cache an
\* EnableScriptAndEval leaves holds no script or eval entry at all, none put
\* before the Disable included.
C21_DisabledImpliesAbsent ==
  /\ ~enabled_script_and_eval_ => ScriptAndEvalAbsent
  /\ last.op = "EnableScriptAndEval" /\ ~pre.enabled =>
       /\ enabled_script_and_eval_
       /\ ScriptAndEvalAbsent

\* An Enable of a disabled cache that had answered a lookup with a hit, so
\* had held an entry: its script and eval tables are absent.
C21_Witness ==
  /\ last.op = "EnableScriptAndEval"
  /\ ~pre.enabled
  /\ enabled_script_and_eval_
  /\ hits >= 1
  /\ ScriptAndEvalAbsent
  /\ AllRegExpAbsent(tables_)

\* The eval table a call made through `context` is routed to, in the cache
\* record given, and the key it uses there.
RoutedEvalTable(cache, context) ==
  IF IsNativeContext(context) THEN cache.eval_global ELSE cache.eval_contextual

OtherEvalTable(cache, context) ==
  IF IsNativeContext(context) THEN cache.eval_contextual ELSE cache.eval_global

\* C22: PutEval and LookupEval use the global eval region exactly when the
\* context is a native context and the contextual eval region otherwise,
\* under the key of the context's native context; so a LookupEval hits
\* exactly when its own region holds the key and returns that region's
\* artifact, whatever the other region holds under the equal key, and a
\* PutEval leaves the other eval region and the script region as they were.
C22_EvalRoutingIsolation ==
  /\ last.op = "LookupEval" /\ pre.enabled =>
       LET context == last.args[3]
           key     == EvalKey(last.args[1], last.args[2],
                              NativeContextOf(context), last.args[4],
                              last.args[5])
           table   == RoutedEvalTable(pre, context)
       IN  /\ result.found = HasKey(table, key)
           /\ result.found => result.value = ValueAt(table, key).shared
           /\ Cache.eval_global = pre.eval_global
           /\ Cache.eval_contextual = pre.eval_contextual
  /\ last.op = "PutEval" /\ pre.enabled =>
       LET context == last.args[3]
           key     == EvalKey(last.args[1], last.args[2],
                              NativeContextOf(context),
                              LanguageModeOf(last.args[4]), last.args[6])
       IN  /\ HasKey(RoutedEvalTable(Cache, context), key)
           /\ ValueAt(RoutedEvalTable(Cache, context), key).shared = last.args[4]
           /\ OtherEvalTable(Cache, context) = OtherEvalTable(pre, context)
           /\ script_table_ = pre.script

\* A LookupEval through the function context that misses although the global
\* eval region holds an entry under the equal key, put through the native
\* context.
C22_Witness ==
  /\ last.op = "LookupEval"
  /\ last.args = <<"a", "A", "function", "sloppy", 0>>
  /\ pre.enabled
  /\ HasKey(eval_global_table_, EvalKey("a", "A", "native", "sloppy", 0))
  /\ ~HasKey(eval_contextual_table_, EvalKey("a", "A", "native", "sloppy", 0))
  /\ ~result.found

====
